---- MODULE Spec2Model ----
(***************************************************************************)
(* Model of analysis/analyze.py: the benchmark record extractor            *)
(* (_parse_folder_data), the series builder (_prepare_plot_data and the    *)
(* sort of _create_line_plot), the summarizer (_print_summary) and the     *)
(* driver analyze_and_plot.                                                *)
(*                                                                         *)
(* JSON / Python values are tagged records [k, n, d]:                      *)
(*   k = "null"  None (JSON null, or a key that .get() does not find)      *)
(*   k = "str"   a JSON value that is not a number (a string)              *)
(*   k = "num"   the number n/d (d > 0)                                    *)
(*   k = "inf"   float('inf')                                              *)
(*   k = "nokey" the key is not in the dict                                *)
(***************************************************************************)
EXTENDS Integers, Sequences, FiniteSets, TLC

VARIABLES
    folder_paths,             \* argument of analyze_and_plot: sequence of paths
    instance_price_per_hour,  \* argument of analyze_and_plot: None or a number
    fs,                       \* the file system: normalised path -> listing
    pc,                       \* position in analyze_and_plot
    i,                        \* index of the next entry of folder_paths
    all_folders_data,         \* dict folder_name -> records, in insertion order
    j,                        \* index of the next group to summarize
    summaries,                \* the summaries printed so far
    plot_data,                \* plotN_data, N in 1..3
    plotted,                  \* per chart, the series handed to plt.plot
    outcome                   \* per chart: "pending", "saved", "nodata", "skipped"

vars == <<folder_paths, instance_price_per_hour, fs, pc, i, all_folders_data,
          j, summaries, plot_data, plotted, outcome>>

-----------------------------------------------------------------------------
(* Bounds of the model *)

MaxFilesExtract == 2
MaxFilesSeries == 3
MaxFilesRun == 2
MaxFolders == 2

-----------------------------------------------------------------------------
(* Values *)

None == [k |-> "null", n |-> 0, d |-> 1]
Str == [k |-> "str", n |-> 0, d |-> 1]
Inf == [k |-> "inf", n |-> 0, d |-> 1]
NoKey == [k |-> "nokey", n |-> 0, d |-> 1]
Num(n) == [k |-> "num", n |-> n, d |-> 1]

RECURSIVE GCD(_, _)
GCD(a, b) == IF b = 0 THEN a ELSE GCD(b, a % b)

Abs(a) == IF a < 0 THEN -a ELSE a

\* the number n/d (d > 0), in lowest terms
Rat(n, d) ==
    LET g == GCD(Abs(n), d)
    IN [k |-> "num", n |-> n \div g, d |-> d \div g]

IsNone(v) == v.k = "null"

\* a == b of Python on two values
PyEq(a, b) ==
    IF a.k = "num" /\ b.k = "num" THEN a.n * b.d = b.n * a.d ELSE a.k = b.k

\* whether a < b (or a > b) of Python raises TypeError
PyCmpRaises(a, b) ==
    ~ ( (a.k \in {"num", "inf"} /\ b.k \in {"num", "inf"})
        \/ (a.k = "str" /\ b.k = "str") )

\* a < b of Python, where it does not raise
PyLt(a, b) ==
    IF a.k = "num" /\ b.k = "num" THEN a.n * b.d < b.n * a.d
    ELSE IF a.k = "num" /\ b.k = "inf" THEN TRUE
    ELSE FALSE

\* format(v, ".2f") raises ValueError on a string
FormatRaises(v) == v.k = "str"

-----------------------------------------------------------------------------
(* Paths and file names *)

\* A path is a sequence of components; "" after the last separator is a
\* trailing slash and "." the current directory.
RECURSIVE normpath(_)
normpath(p) ==
    IF p = <<>> THEN <<>>
    ELSE IF Head(p) \in {"", "."} THEN normpath(Tail(p))
    ELSE <<Head(p)>> \o normpath(Tail(p))

basename(p) == IF p = <<>> THEN "" ELSE p[Len(p)]

lower(ext) == IF ext = "JSON" THEN "json" ELSE ext

\* filename.lower().endswith('.json')
IsJsonName(filename) == lower(filename.ext) = "json"

\* os.path.isdir(folder_path)
isdir(filesystem, folder_path) ==
    normpath(folder_path) \in DOMAIN filesystem

\* os.listdir(folder_path)
listdir(filesystem, folder_path) == filesystem[normpath(folder_path)]

-----------------------------------------------------------------------------
(* _parse_folder_data *)

\* metrics.get(key)
MetricsGet(file, key) ==
    IF file.metrics[key].k = "nokey" THEN None ELSE file.metrics[key]

\* variant: the hour taken for 60 seconds
CostPerMillion_PerMinute(price, throughput) ==
    Rat(price.n * 1000000 * throughput.d, price.d * throughput.n * 60)

\* (instance_price_per_hour * 1000000) / (throughput * 3600)
CostPerMillion(price, throughput) ==
    Rat(price.n * 1000000 * throughput.d, price.d * throughput.n * 3600)

\* `throughput > 0` at line 107 raises TypeError on a non-number
CostRaises(price, throughput) == ~ IsNone(price) /\ throughput.k = "str"

CostField(price, throughput) ==
    IF ~ IsNone(price) /\ PyLt(Num(0), throughput)
    THEN CostPerMillion(price, throughput)
    ELSE IF ~ IsNone(price) /\ PyEq(throughput, Num(0))
    THEN Inf
    ELSE NoKey

\* the body of the loop for one directory entry: the records it appends
ParseFile(file, price) ==
    IF ~ IsJsonName(file.filename) THEN <<>>
    ELSE IF file.kind # "object" THEN <<>>
    ELSE LET throughput == MetricsGet(file, "throughput")
             latency == MetricsGet(file, "avg_per_token_latency_ms")
             normalized_latency ==
                 MetricsGet(file, "avg_normalized_time_per_output_token_ms")
             request_rate == MetricsGet(file, "request_rate")
         IN IF ~ IsNone(throughput) /\ ~ IsNone(request_rate)
            THEN IF CostRaises(price, throughput) THEN <<>>
                 ELSE << [throughput |-> throughput,
                          latency |-> latency,
                          normalized_latency |-> normalized_latency,
                          request_rate |-> request_rate,
                          filename |-> file.filename,
                          cost_per_million_tokens |->
                              CostField(price, throughput)] >>
            ELSE <<>>

\* variant: the first file that cannot be read ends the scan of the folder
RECURSIVE ParseListing_StopAtError(_, _)
ParseListing_StopAtError(listing, price) ==
    IF listing = <<>> THEN <<>>
    ELSE IF IsJsonName(Head(listing).filename) /\ Head(listing).kind # "object"
    THEN <<>>
    ELSE ParseFile(Head(listing), price)
         \o ParseListing_StopAtError(Tail(listing), price)

RECURSIVE ParseListing(_, _)
ParseListing(listing, price) ==
    IF listing = <<>> THEN <<>>
    ELSE ParseFile(Head(listing), price) \o ParseListing(Tail(listing), price)

_parse_folder_data(filesystem, folder_path, price) ==
    IF ~ isdir(filesystem, folder_path) THEN <<>>
    ELSE ParseListing(listdir(filesystem, folder_path), price)

-----------------------------------------------------------------------------
(* Python dicts, in insertion order: sequences of [key, value] entries *)

DictKeys(dict) == {dict[n].key : n \in 1..Len(dict)}

\* dict[key] = value: a key already present keeps its position
DictSet(dict, key, value) ==
    IF key \in DictKeys(dict)
    THEN [n \in 1..Len(dict) |->
             IF dict[n].key = key THEN [key |-> key, value |-> value]
             ELSE dict[n]]
    ELSE Append(dict, [key |-> key, value |-> value])

\* p.get(key) on a record
Get(p, key) == IF p[key].k = "nokey" THEN None ELSE p[key]

-----------------------------------------------------------------------------
(* _print_summary *)

\* variant: a later point of equal throughput replaces the best one
RECURSIVE MaxFrom_LastMax(_, _, _)
MaxFrom_LastMax(points, n, best) ==
    IF n > Len(points) THEN best
    ELSE IF PyCmpRaises(points[n].throughput, points[best].throughput) THEN 0
    ELSE MaxFrom_LastMax(points, n + 1,
                         IF ~ PyLt(points[n].throughput, points[best].throughput)
                         THEN n ELSE best)

\* max(points, key=throughput): index of the first maximal point, 0 when a
\* comparison raises TypeError
RECURSIVE MaxFrom(_, _, _)
MaxFrom(points, n, best) ==
    IF n > Len(points) THEN best
    ELSE IF PyCmpRaises(points[n].throughput, points[best].throughput) THEN 0
    ELSE MaxFrom(points, n + 1,
                 IF PyLt(points[best].throughput, points[n].throughput)
                 THEN n ELSE best)

max_throughput_index(points) == MaxFrom(points, 2, 1)

NoSummary == [status |-> "nothing"]

_print_summary(parsed_data_points) ==
    LET valid_throughput_points ==
            SelectSeq(parsed_data_points,
                      LAMBDA p : ~ IsNone(Get(p, "throughput")))
        m == max_throughput_index(valid_throughput_points)
        max_throughput_point == valid_throughput_points[m]
    IN IF parsed_data_points = <<>> \/ valid_throughput_points = <<>>
       THEN NoSummary
       ELSE IF m = 0 \/ FormatRaises(max_throughput_point.throughput)
       THEN [status |-> "raised"]
       ELSE [status |-> "printed",
             point |-> max_throughput_point,
             File |-> max_throughput_point.filename,
             Throughput |-> max_throughput_point.throughput,
             RequestRate |-> max_throughput_point.request_rate,
             Latency |-> Get(max_throughput_point, "latency"),
             NormalizedLatency |->
                 Get(max_throughput_point, "normalized_latency"),
             Cost |-> Get(max_throughput_point, "cost_per_million_tokens")]

-----------------------------------------------------------------------------
(* _prepare_plot_data *)

\* variant: only the x field is required
ValidPoints_XOnly(points, x_key, y_key) ==
    SelectSeq(points, LAMBDA p : ~ IsNone(Get(p, x_key)))

ValidPoints(points, x_key, y_key) ==
    SelectSeq(points,
              LAMBDA p : ~ IsNone(Get(p, x_key)) /\ ~ IsNone(Get(p, y_key)))

Column(points, key) == [n \in 1..Len(points) |-> points[n][key]]

RECURSIVE _prepare_plot_data(_, _, _)
_prepare_plot_data(folders_data, x_key, y_key) ==
    IF folders_data = <<>> THEN <<>>
    ELSE LET folder_name == Head(folders_data).key
             valid_points == ValidPoints(Head(folders_data).value, x_key, y_key)
             rest == _prepare_plot_data(Tail(folders_data), x_key, y_key)
         IN IF valid_points # <<>>
            THEN << [key |-> folder_name,
                     value |-> [x |-> Column(valid_points, x_key),
                                y |-> Column(valid_points, y_key)]] >> \o rest
            ELSE rest

-----------------------------------------------------------------------------
(* _create_line_plot *)

Min(a, b) == IF a < b THEN a ELSE b

\* zip(x_data, y_data)
zip(x_data, y_data) ==
    [n \in 1..Min(Len(x_data), Len(y_data)) |-> <<x_data[n], y_data[n]>>]

\* variant: the points are compared on x alone
TupleLt_XOnly(a, b) == PyLt(a[1], b[1])

\* a < b on two (x, y) tuples: the first differing component decides
TupleLt(a, b) ==
    IF ~ PyEq(a[1], b[1]) THEN PyLt(a[1], b[1])
    ELSE IF ~ PyEq(a[2], b[2]) THEN PyLt(a[2], b[2])
    ELSE FALSE

\* the tuple comparison reaches two components that Python cannot order
TupleCmpRaises(a, b) ==
    IF ~ PyEq(a[1], b[1]) THEN PyCmpRaises(a[1], b[1])
    ELSE ~ PyEq(a[2], b[2]) /\ PyCmpRaises(a[2], b[2])

\* variant: the points are left in the order of the records
InsertAt_Unsorted(sorted_seq, e, n) == Append(sorted_seq, e)

\* position of `e` in a sorted sequence: after every element not greater
RECURSIVE InsertAt(_, _, _)
InsertAt(sorted_seq, e, n) ==
    IF n > Len(sorted_seq) THEN Append(sorted_seq, e)
    ELSE IF TupleLt(e, sorted_seq[n])
    THEN SubSeq(sorted_seq, 1, n - 1) \o <<e>>
         \o SubSeq(sorted_seq, n, Len(sorted_seq))
    ELSE InsertAt(sorted_seq, e, n + 1)

\* sorted(points): stable, ascending in the tuple order
RECURSIVE sorted(_)
sorted(points) ==
    IF points = <<>> THEN <<>>
    ELSE InsertAt(sorted(SubSeq(points, 1, Len(points) - 1)),
                  points[Len(points)], 1)

SortRaises(points) ==
    \E a, b \in 1..Len(points) : a # b /\ TupleCmpRaises(points[a], points[b])

\* the series handed to plt.plot, in the order of the dict
RECURSIVE PlottedSeries(_)
PlottedSeries(all_series_data) ==
    IF all_series_data = <<>> THEN <<>>
    ELSE LET series_label == Head(all_series_data).key
             x_data == Head(all_series_data).value.x
             y_data == Head(all_series_data).value.y
             sorted_points == sorted(zip(x_data, y_data))
             rest == PlottedSeries(Tail(all_series_data))
         IN IF x_data = <<>> \/ y_data = <<>> \/ sorted_points = <<>>
            THEN rest
            ELSE << [label |-> series_label,
                     x_sorted |-> [n \in 1..Len(sorted_points) |->
                                       sorted_points[n][1]],
                     y_sorted |-> [n \in 1..Len(sorted_points) |->
                                       sorted_points[n][2]]] >> \o rest

PlotRaises(all_series_data) ==
    \E n \in 1..Len(all_series_data) :
        SortRaises(zip(all_series_data[n].value.x, all_series_data[n].value.y))

-----------------------------------------------------------------------------
(* analyze_and_plot *)

X_KEY == <<"latency", "normalized_latency", "normalized_latency">>
Y_KEY == <<"throughput", "throughput", "cost_per_million_tokens">>

Charts == 1..3

\* one iteration of the loop over folder_paths (lines 156-160)
StoreFolder(folders_data, folder_path, parsed_data) ==
    IF parsed_data # <<>>
    THEN DictSet(folders_data, basename(normpath(folder_path)), parsed_data)
    ELSE folders_data

ParseFolder ==
    /\ pc = "parse"
    /\ i <= Len(folder_paths)
    /\ all_folders_data' =
           StoreFolder(all_folders_data, folder_paths[i],
                       _parse_folder_data(fs, folder_paths[i],
                                          instance_price_per_hour))
    /\ i' = i + 1
    /\ UNCHANGED <<folder_paths, instance_price_per_hour, fs, pc, j,
                   summaries, plot_data, plotted, outcome>>

\* `if not all_folders_data: ... return` (lines 162-164)
CheckData ==
    /\ pc = "parse"
    /\ i > Len(folder_paths)
    /\ pc' = IF all_folders_data = <<>> THEN "nodata" ELSE "summary"
    /\ UNCHANGED <<folder_paths, instance_price_per_hour, fs, i,
                   all_folders_data, j, summaries, plot_data, plotted,
                   outcome>>

\* one iteration of the loop over the groups (lines 167-169)
Summarize ==
    /\ pc = "summary"
    /\ j <= Len(all_folders_data)
    /\ LET summary == _print_summary(all_folders_data[j].value)
       IN IF summary.status = "raised"
          THEN /\ pc' = "raised"
               /\ UNCHANGED <<j, summaries>>
          ELSE /\ summaries' =
                      Append(summaries,
                             [folder_name |-> all_folders_data[j].key,
                              summary |-> summary])
               /\ j' = j + 1
               /\ pc' = IF j = Len(all_folders_data) THEN "plot1" ELSE pc
    /\ UNCHANGED <<folder_paths, instance_price_per_hour, fs, i,
                   all_folders_data, plot_data, plotted, outcome>>

\* one of the chart blocks (lines 171-182, 184-195, 199-209)
Chart(c, next) ==
    LET data == _prepare_plot_data(all_folders_data, X_KEY[c], Y_KEY[c])
    IN /\ plot_data' = [plot_data EXCEPT ![c] = data]
       /\ IF data = <<>>
          THEN /\ outcome' = [outcome EXCEPT ![c] = "nodata"]
               /\ pc' = next
               /\ UNCHANGED plotted
          ELSE IF PlotRaises(data)
          THEN /\ pc' = "raised"
               /\ UNCHANGED <<plotted, outcome>>
          ELSE /\ plotted' = [plotted EXCEPT ![c] = PlottedSeries(data)]
               /\ outcome' = [outcome EXCEPT ![c] = "saved"]
               /\ pc' = next

Plot1 ==
    /\ pc = "plot1"
    /\ Chart(1, "plot2")
    /\ UNCHANGED <<folder_paths, instance_price_per_hour, fs, i,
                   all_folders_data, j, summaries>>

Plot2 ==
    /\ pc = "plot2"
    /\ Chart(2, "plot3")
    /\ UNCHANGED <<folder_paths, instance_price_per_hour, fs, i,
                   all_folders_data, j, summaries>>

\* lines 198-211
Plot3 ==
    /\ pc = "plot3"
    /\ IF ~ IsNone(instance_price_per_hour)
       THEN Chart(3, "done")
       ELSE /\ outcome' = [outcome EXCEPT ![3] = "skipped"]
            /\ pc' = "done"
            /\ UNCHANGED <<plot_data, plotted>>
    /\ UNCHANGED <<folder_paths, instance_price_per_hour, fs, i,
                   all_folders_data, j, summaries>>

Next == ParseFolder \/ CheckData \/ Summarize \/ Plot1 \/ Plot2 \/ Plot3

-----------------------------------------------------------------------------
(* Inputs *)

Metrics(t, l, nl, r) ==
    [throughput |-> t, avg_per_token_latency_ms |-> l,
     avg_normalized_time_per_output_token_ms |-> nl, request_rate |-> r]

NoMetrics == Metrics(NoKey, NoKey, NoKey, NoKey)

JsonName(n) == [stem |-> n, ext |-> "json"]

Object(name, metrics) == [filename |-> name, kind |-> "object", metrics |-> metrics]

\* a file json.load or open fails on, or whose JSON value is not an object
Faulty(name, kind) == [filename |-> name, kind |-> kind, metrics |-> NoMetrics]

\* the n-th entry of a listing for the extractor: the first entry is any
\* kind of file, the later ones a file with a record or a malformed one
ExtractFiles(n) ==
    IF n = 1
    THEN {Object(JsonName(n), Metrics(t, l, nl, r)) :
             t \in {NoKey, None, Str, Num(0), Num(1), Num(1000)},
             l \in {NoKey, Num(20)},
             nl \in {NoKey, Num(30)},
             r \in {NoKey, Num(5)}}
         \cup {Faulty(JsonName(n), kd) :
                   kd \in {"malformed", "unreadable", "array"}}
         \cup {Object([stem |-> n, ext |-> e],
                      Metrics(Num(1), Num(20), Num(30), Num(5))) :
                   e \in {"JSON", "txt"}}
    ELSE {Object(JsonName(n), Metrics(Num(1), Num(20), Num(30), Num(5))),
          Faulty(JsonName(n), "malformed")}

\* the n-th entry of a listing for the series builder and the summarizer:
\* the first two entries have any combination of the optional fields
SeriesFiles(n) ==
    IF n <= 2
    THEN {Object(JsonName(n), Metrics(t, l, nl, Num(5))) :
             t \in {Num(-1), Num(0), Num(1)},
             l \in {NoKey, Num(1)},
             nl \in {NoKey, Num(1), Num(2)}}
    ELSE {Object(JsonName(n), Metrics(t, Num(1), nl, Num(5))) :
             t \in {Num(0), Num(1)},
             nl \in {Num(1), Num(2)}}

\* the n-th entry of the listing of a/run
RunFiles(n) ==
    {Object(JsonName(n), Metrics(t, Num(1), Num(1), Num(5))) :
        t \in {NoKey, Str, Num(1)}}
    \cup {Faulty(JsonName(n), kd) : kd \in {"malformed", "unreadable"}}

\* the only entry of the listing of b/run
OtherRunFiles(n) ==
    {Object(JsonName(n), Metrics(Num(2), Num(1), Num(1), Num(5))),
     Faulty(JsonName(n), "malformed")}

\* the n-th entry of a listing of one of the families above
Files(family, n) ==
    CASE family = "extract" -> ExtractFiles(n)
      [] family = "series" -> SeriesFiles(n)
      [] family = "run" -> RunFiles(n)
      [] OTHER -> OtherRunFiles(n)

\* the listings of at most `max` entries of a family
Listings(family, max) ==
    LET OfLen[len \in 0..max] ==
            IF len = 0 THEN {<<>>}
            ELSE {Append(listing, file) :
                      listing \in OfLen[len - 1], file \in Files(family, len)}
    IN UNION {OfLen[len] : len \in 0..max}

Prices == {None, Rat(18, 5), Num(1)}

Start ==
    /\ pc = "parse"
    /\ i = 1
    /\ all_folders_data = <<>>
    /\ j = 1
    /\ summaries = <<>>
    /\ plot_data = [c \in Charts |-> <<>>]
    /\ plotted = [c \in Charts |-> <<>>]
    /\ outcome = [c \in Charts |-> "pending"]

\* one directory, every kind of file
InitExtract ==
    /\ folder_paths = << <<"c">> >>
    /\ instance_price_per_hour \in Prices
    /\ \E listing \in Listings("extract", MaxFilesExtract) :
           fs = [p \in {<<"c">>} |-> listing]
    /\ Start

\* one directory of well-formed files
InitSeries ==
    /\ folder_paths = << <<"c">> >>
    /\ instance_price_per_hour \in {None, Num(1)}
    /\ \E listing \in Listings("series", MaxFilesSeries) :
           fs = [p \in {<<"c">>} |-> listing]
    /\ Start

RunPaths == {<<"a", "run">>, <<"a", "run", "">>, <<"b", "run">>, <<"x">>}

RunDirs == {<<"a", "run">>, <<"b", "run">>}

\* several folders, two directories with the same final component
InitRun ==
    /\ folder_paths \in UNION {[1..len -> RunPaths] : len \in 1..MaxFolders}
    /\ instance_price_per_hour \in {None, Num(1)}
    /\ \E la \in Listings("run", MaxFilesRun),
          lb \in Listings("other", 1) :
           fs = [p \in RunDirs |-> IF p = <<"a", "run">> THEN la ELSE lb]
    /\ Start

Spec == InitRun /\ [][Next]_vars

SpecExtract == InitExtract /\ [][Next]_vars

SpecSeries == InitSeries /\ [][Next]_vars

-----------------------------------------------------------------------------
(* Vocabulary of the properties *)

\* the value is there and is not null
Present(v) == v.k \notin {"null", "nokey"}

\* the loop over folder_paths has finished
Extracted == pc # "parse" \/ i > Len(folder_paths)

GroupRecords(g) ==
    {all_folders_data[g].value[n] : n \in 1..Len(all_folders_data[g].value)}

\* every record held in a group
Records == UNION {GroupRecords(g) : g \in 1..Len(all_folders_data)}

\* the listing of the only directory of SpecExtract and SpecSeries
TheListing == fs[<<"c">>]

PriceSupplied == instance_price_per_hour.k # "null"

-----------------------------------------------------------------------------
(* Record extractor *)

\* C1: for every .json file of the scanned directory that holds valid JSON,
\* and whether or not a price was supplied, a record is returned for the file
\* if and only if throughput and request_rate are both non-null in its metrics.
C1_RecordIffRequiredFields ==
    Extracted =>
        \A n \in 1..Len(TheListing) :
            LET file == TheListing[n]
            IN (IsJsonName(file.filename) /\ file.kind \in {"object", "array"})
               => ( (\E rec \in Records : rec.filename = file.filename)
                    <=> ( Present(file.metrics.throughput)
                          /\ Present(file.metrics.request_rate) ) )

\* C2: a record's cost is P*1000000/(T*3600) for a price P > 0 and a
\* throughput T > 0, the infinite sentinel for a price and T = 0, and the
\* record has no cost key when no price was supplied; 3.60 an hour at 1000
\* tokens a second is 1 dollar per million tokens.
C2_CostFormula ==
    \A rec \in Records :
        LET P == instance_price_per_hour
            T == rec.throughput
            cost == rec.cost_per_million_tokens
        IN /\ (PriceSupplied /\ P.n > 0 /\ T.k = "num" /\ T.n > 0)
              => /\ cost.k = "num"
                 /\ cost.n * (P.d * T.n * 3600) = cost.d * (P.n * 1000000 * T.d)
           /\ (PriceSupplied /\ T.k = "num" /\ T.n = 0) => cost.k = "inf"
           /\ ~ PriceSupplied => cost.k = "nokey"
           /\ (P = [k |-> "num", n |-> 18, d |-> 5] /\ T = Num(1000))
              => cost = [k |-> "num", n |-> 1, d |-> 1]

\* a record with a positive throughput and one with throughput 0, extracted
\* with a price
C2_Witness ==
    /\ PriceSupplied
    /\ \E rec \in Records :
           rec.throughput = Num(1000) /\ rec.cost_per_million_tokens.k = "num"

-----------------------------------------------------------------------------
(* Series builder *)

\* the chart's pairing has been computed by _prepare_plot_data
Prepared(c) == outcome[c] \in {"saved", "nodata"}

\* the record has both fields of the chart's pairing
Qualifies(rec, c) == Present(rec[X_KEY[c]]) /\ Present(rec[Y_KEY[c]])

\* the indices of the qualifying records of a group
Qualifying(points, c) == {n \in 1..Len(points) : Qualifies(points[n], c)}

\* the index of the m-th qualifying record of a group
NthQualifying(points, c, m) ==
    CHOOSE n \in Qualifying(points, c) :
        Cardinality({q \in Qualifying(points, c) : q <= n}) = m

\* C3: _prepare_plot_data returns a series for a label if and only if one of
\* the label's records has both selected fields non-null; the series holds
\* exactly the (x, y) values of the qualifying records, the n-th x and the
\* n-th y from the same record; no label has an empty series.
C3_SeriesOfQualifyingRecords ==
    \A c \in Charts :
        Prepared(c) =>
            /\ \A g \in 1..Len(all_folders_data) :
                   LET points == all_folders_data[g].value
                       label == all_folders_data[g].key
                   IN /\ (label \in DictKeys(plot_data[c]))
                          <=> (Qualifying(points, c) # {})
                      /\ \A s \in 1..Len(plot_data[c]) :
                             plot_data[c][s].key = label =>
                                 LET series == plot_data[c][s].value
                                 IN /\ Len(series.x) =
                                           Cardinality(Qualifying(points, c))
                                    /\ Len(series.y) = Len(series.x)
                                    /\ \A m \in 1..Len(series.x) :
                                           LET rec == points[NthQualifying(points, c, m)]
                                           IN /\ series.x[m] = rec[X_KEY[c]]
                                              /\ series.y[m] = rec[Y_KEY[c]]
            /\ \A s \in 1..Len(plot_data[c]) :
                   /\ plot_data[c][s].key \in DictKeys(all_folders_data)
                   /\ plot_data[c][s].value.x # <<>>
                   /\ \A s2 \in 1..Len(plot_data[c]) :
                          plot_data[c][s2].key = plot_data[c][s].key => s2 = s

\* a cost series that leaves out a record without a normalized latency and a
\* record without a cost, beside a latency series of two of the three records
C3_Witness ==
    /\ Prepared(3)
    /\ \E g \in 1..Len(all_folders_data) :
           LET points == all_folders_data[g].value
           IN /\ Len(points) = 3
              /\ Cardinality(Qualifying(points, 3)) = 1
              /\ \E n \in 1..3 : ~ Present(points[n].normalized_latency)
              /\ \E n \in 1..3 : /\ Present(points[n].normalized_latency)
                                 /\ ~ Present(points[n].cost_per_million_tokens)
              /\ all_folders_data[g].key \in DictKeys(plot_data[3])
    /\ Prepared(1)
    /\ Len(plot_data[1][1].value.x) = 2

\* C4: every series handed to the renderer is ordered non-decreasing by x,
\* for each of the three pairings and every order of the directory listing.
C4_SortedByX ==
    \A c \in Charts :
        \A s \in 1..Len(plotted[c]) :
            LET series == plotted[c][s]
            IN \A n \in 1..(Len(series.x_sorted) - 1) :
                   ~ PyLt(series.x_sorted[n + 1], series.x_sorted[n])

\* a rendered series whose records were read in decreasing order of x
C4_Witness ==
    \E c \in Charts :
        /\ outcome[c] = "saved"
        /\ \E s \in 1..Len(plot_data[c]) :
               LET x == plot_data[c][s].value.x
               IN /\ Len(x) = 3
                  /\ PyLt(x[2], x[1])
                  /\ PyLt(x[3], x[1])
                  /\ plotted[c][s].x_sorted # x

\* the (x, y) pairs of a rendered series
Pairs(series) == zip(series.x_sorted, series.y_sorted)

\* the stable sort on x alone
RECURSIVE InsertByX(_, _, _)
InsertByX(sorted_seq, e, n) ==
    IF n > Len(sorted_seq) THEN Append(sorted_seq, e)
    ELSE IF PyLt(e[1], sorted_seq[n][1])
    THEN SubSeq(sorted_seq, 1, n - 1) \o <<e>>
         \o SubSeq(sorted_seq, n, Len(sorted_seq))
    ELSE InsertByX(sorted_seq, e, n + 1)

RECURSIVE StableSortByX(_)
StableSortByX(points) ==
    IF points = <<>> THEN <<>>
    ELSE InsertByX(StableSortByX(SubSeq(points, 1, Len(points) - 1)),
                   points[Len(points)], 1)

Count(pairs, e) == Cardinality({n \in 1..Len(pairs) : pairs[n] = e})

-----------------------------------------------------------------------------
(* Summarizer *)

\* C6: the record the summarizer reports has a throughput greater than or
\* equal to that of every record of the list, it is the first such record in
\* input order, and the record list is left unchanged.
C6_FirstMaxThroughput ==
    [][ (pc = "summary" /\ summaries' # summaries) =>
            LET points == all_folders_data[j].value
                reported == summaries'[Len(summaries')].summary
            IN /\ all_folders_data' = all_folders_data
               /\ reported.status = "printed"
               /\ \E m \in 1..Len(points) :
                      /\ reported.point = points[m]
                      /\ \A n \in 1..Len(points) :
                             ~ PyLt(points[m].throughput, points[n].throughput)
                      /\ \A n \in 1..(m - 1) :
                             PyLt(points[n].throughput, points[m].throughput)
      ]_vars

\* a summary of three records, the second and the third sharing the maximum
C6_Witness ==
    /\ Len(summaries) = 1
    /\ LET points == all_folders_data[1].value
       IN /\ Len(points) = 3
          /\ PyLt(points[1].throughput, points[2].throughput)
          /\ PyEq(points[2].throughput, points[3].throughput)
          /\ summaries[1].summary.point = points[2]

\* C7: with a price supplied, the best-throughput record reported for a
\* directory is never a zero-throughput record, and the cost reported in a
\* summary is never the infinite sentinel.
C7_NoZeroThroughputBest ==
    PriceSupplied =>
        \A n \in 1..Len(summaries) :
            /\ ~ PyEq(summaries[n].summary.Throughput, Num(0))
            /\ summaries[n].summary.Cost.k # "inf"

-----------------------------------------------------------------------------
(* Driver *)

\* a .json file that is malformed, unreadable or lacks a required field
FaultyFile(file) ==
    /\ IsJsonName(file.filename)
    /\ \/ file.kind \in {"malformed", "unreadable"}
       \/ ~ Present(file.metrics.throughput)
       \/ ~ Present(file.metrics.request_rate)

\* the file system without its faulty files
WithoutFaultyFiles ==
    [p \in DOMAIN fs |-> SelectSeq(fs[p], LAMBDA file : ~ FaultyFile(file))]

\* the input paths without those that are not a directory
WithoutFaultyPaths(paths) ==
    SelectSeq(paths, LAMBDA p : normpath(p) \in DOMAIN fs)

\* the groups after a run of the loop over `paths`
RECURSIVE GroupsOf(_, _)
GroupsOf(paths, filesystem) ==
    IF paths = <<>> THEN <<>>
    ELSE LET last == paths[Len(paths)]
         IN StoreFolder(GroupsOf(SubSeq(paths, 1, Len(paths) - 1), filesystem),
                        last,
                        _parse_folder_data(filesystem, last,
                                           instance_price_per_hour))

\* C8: a path that is not a directory and a .json file that is malformed,
\* unreadable or without a required field contribute no record, the loop goes
\* on, and the groups are those of the same input without the faulty paths
\* and files.
C8_ErrorsAreLocal ==
    /\ i \in 1..(Len(folder_paths) + 1)
    /\ all_folders_data =
           GroupsOf(WithoutFaultyPaths(SubSeq(folder_paths, 1, i - 1)),
                    WithoutFaultyFiles)
    /\ \A n \in 1..(i - 1) :
           ~ isdir(fs, folder_paths[n])
               => _parse_folder_data(fs, folder_paths[n],
                                     instance_price_per_hour) = <<>>

\* a path that is not a directory, followed by a directory whose first file
\* is malformed and whose second file yields a record
C8_Witness ==
    /\ Extracted
    /\ Len(folder_paths) = 2
    /\ ~ isdir(fs, folder_paths[1])
    /\ folder_paths[2] = <<"a", "run">>
    /\ Len(fs[<<"a", "run">>]) = 2
    /\ fs[<<"a", "run">>][1].kind = "malformed"
    /\ Len(all_folders_data) = 1
    /\ Len(all_folders_data[1].value) = 1
    /\ all_folders_data[1].value[1].filename = fs[<<"a", "run">>][2].filename

\* the run has ended
Ended == pc \in {"nodata", "done", "raised"}

\* C9: with zero records the run ends after reporting it, with no summary and
\* no chart; nothing else ends the run early: with at least one record a
\* summary is produced for every group and every pairing is then attempted.
C9_OnlyNoDataEndsEarly ==
    /\ pc = "nodata" =>
           /\ all_folders_data = <<>>
           /\ summaries = <<>>
           /\ \A c \in Charts : outcome[c] = "pending" /\ plotted[c] = <<>>
    /\ (Extracted /\ all_folders_data = <<>>) => pc \in {"parse", "nodata"}
    /\ (Ended /\ all_folders_data # <<>>) =>
           /\ Len(summaries) = Len(all_folders_data)
           /\ \A g \in 1..Len(all_folders_data) :
                  /\ summaries[g].folder_name = all_folders_data[g].key
                  /\ summaries[g].summary.status = "printed"
           /\ outcome[1] \in {"saved", "nodata"}
           /\ outcome[2] \in {"saved", "nodata"}
           /\ outcome[3] \in {"saved", "nodata", "skipped"}
           /\ (outcome[3] = "skipped") <=> ~ PriceSupplied

\* the input directories that yielded a record
YieldingDirs ==
    {normpath(folder_paths[n]) : n \in 1..Len(folder_paths)}
        \cap {p \in DOMAIN fs :
                  _parse_folder_data(fs, p, instance_price_per_hour) # <<>>}

\* C10: after extraction every input directory that yielded a record has a
\* group of its own holding its records, also when two directories share
\* their final path component.
C10_GroupPerDirectory ==
    Extracted =>
        /\ Len(all_folders_data) = Cardinality(YieldingDirs)
        /\ \A p \in YieldingDirs :
               \E g \in 1..Len(all_folders_data) :
                   all_folders_data[g].value =
                       _parse_folder_data(fs, p, instance_price_per_hour)

====
